---- MODULE Spec2Model ----
(***************************************************************************)
(* FcmDataProcessor (src/fcmbci/data_processor/fcm_data.py): derivation of *)
(* causal weights of a fuzzy cognitive map from the linguistic terms that  *)
(* several experts assign to ordered pairs of concepts.                    *)
(*                                                                         *)
(* Numbers.  The program computes in binary floating point.  The model     *)
(* computes in exact rationals <<n, d>> (d > 0, lowest terms), so rounding *)
(* is not modelled.                                                        *)
(*                                                                         *)
(* Universe.  The program samples [-1, 1] with step 0.001 and anchors the  *)
(* two terms next to zero at +-0.001, one step from zero.  The model keeps *)
(* that geometry with Resolution samples per unit: step and anchor are     *)
(* both 1 / Resolution (the program has Resolution = 1000).                *)
(*                                                                         *)
(* Text.  Linguistic terms are sequences of characters (<<"-", "L">> is    *)
(* the label -L), so that the program's string operations (repr, replace,  *)
(* strip, concatenation) are modelled on the characters.                   *)
(*                                                                         *)
(* Library.  skfuzzy.trimf and skfuzzy.defuzz are modelled at the lines    *)
(* that call them, after scikit-fuzzy 0.4.2.  The bisector method is       *)
(* modelled up to its zero-area check only (past it the library takes      *)
(* square roots).                                                          *)
(***************************************************************************)
EXTENDS Integers, Sequences, FiniteSets, TLC

(* ------------------------------ bounds -------------------------------- *)

\* universe samples per unit (the step is 1 / Resolution)
Resolution == 4

\* number of expert sheets in a batch
NumExperts == 3

\* longest list of linguistic terms passed to a run
MaxTerms == 6

(* --------------------------- exact rationals --------------------------- *)

Abs(n) == IF n < 0 THEN -n ELSE n

RECURSIVE GCD(_, _)
GCD(a, b) == IF b = 0 THEN a ELSE GCD(b, a % b)

\* the float n / d
Rat(n, d) ==
    LET g == GCD(Abs(n), Abs(d))
        s == IF d < 0 THEN -1 ELSE 1
    IN  <<(s * n) \div g, (s * d) \div g>>

Zero == <<0, 1>>
One == <<1, 1>>

RNeg(a) == <<-a[1], a[2]>>
RAdd(a, b) ==
    LET g == GCD(a[2], b[2])
    IN  Rat(a[1] * (b[2] \div g) + b[1] * (a[2] \div g), (a[2] \div g) * b[2])
RSub(a, b) == RAdd(a, RNeg(b))
RMul(a, b) ==
    LET g1 == GCD(Abs(a[1]), b[2])
        g2 == GCD(Abs(b[1]), a[2])
    IN  Rat((a[1] \div g1) * (b[1] \div g2), (a[2] \div g2) * (b[2] \div g1))
\* a / b for b /= 0
RDiv(a, b) == RMul(a, Rat(b[2], b[1]))
RLt(a, b) == a[1] * b[2] < b[1] * a[2]
RLeq(a, b) == a[1] * b[2] <= b[1] * a[2]
\* np.fmin of two floats
RMin(a, b) == IF RLeq(a, b) THEN a ELSE b
\* abs(a)
RAbs(a) == <<Abs(a[1]), a[2]>>

RECURSIVE RSum(_)
RSum(s) == IF s = <<>> THEN Zero ELSE RAdd(Head(s), RSum(Tail(s)))

(* ------------------------------ results -------------------------------- *)

\* a call either returns a value or raises an exception
Return(v) == [value |-> v]
Raise(e) == [raised |-> e]
Raised(r) == "raised" \in DOMAIN r

(* --------------------------- the universe ------------------------------ *)

\* self.universe = np.arange(-1, 1.001, 0.001)
universe == [i \in 1..(2 * Resolution + 1) |-> Rat(i - 1 - Resolution, Resolution)]

\* the literal 0.001 of the centers nearest to zero: one universe step
Anchor == Rat(1, Resolution)

\* the array of zeros over the universe
ZeroArray == [i \in DOMAIN universe |-> Zero]

(* -------------------------- linguistic terms --------------------------- *)

\* the unsigned names of the default term list, weakest first
BaseNames == << <<"V", "L">>, <<"L">>, <<"M">>, <<"H">>, <<"V", "H">> >>

Minus(name) == <<"-">> \o name

\* a term list of n labels laid out like the default list: the negative
\* half strongest first, then the positive half weakest first; an odd n
\* has the extra label on the positive side
TermList(n) ==
    LET h == n \div 2
    IN  [i \in 1..n |-> IF i <= h THEN Minus(BaseNames[h + 1 - i])
                                  ELSE BaseNames[i - h]]

Range(s) == {s[i] : i \in DOMAIN s}

(* ------------------------- membership functions ------------------------ *)

\* np.linspace(a, b, num)
linspace(a, b, num) ==
    [k \in 1..num |->
        IF num = 1 THEN a
        ELSE RAdd(a, RMul(Rat(k - 1, num - 1), RSub(b, a)))]

\* skfuzzy.trimf(x, abc): 1 at x == b, linear on (a, b) and (b, c), else 0
trimf(x, abc) ==
    LET a == abc[1]
        b == abc[2]
        c == abc[3]
    IN  IF ~(RLeq(a, b) /\ RLeq(b, c)) THEN Raise("AssertionError")
        ELSE Return([i \in DOMAIN x |->
                IF x[i] = b THEN One
                ELSE IF b /= c /\ RLt(b, x[i]) /\ RLt(x[i], c)
                    THEN RDiv(RSub(c, x[i]), RSub(c, b))
                ELSE IF a /= b /\ RLt(a, x[i]) /\ RLt(x[i], b)
                    THEN RDiv(RSub(x[i], a), RSub(b, a))
                ELSE Zero])

\* the centers of automf: negative side then positive side
centers_pos(number) == linspace(Anchor, One, number \div 2)
centers_neg(number) == linspace(RNeg(One), RNeg(Anchor), number \div 2)
centers(number) == centers_neg(number) \o centers_pos(number)

\* universe_range / (((number/2) - 1) / 2.), for number /= 2
width(unv, number) ==
    LET universe_range == RDiv(RSub(unv[Len(unv)], unv[1]), Rat(2, 1))
    IN  RDiv(universe_range, RDiv(RSub(Rat(number, 2), One), Rat(2, 1)))

\* the [a, b, c] of every triangle, the two next to zero replaced;
\* zip(centers, widths) stops at the shorter list, the 2 * (number // 2)
\* centers
abcs(unv, number) ==
    LET h == number \div 2
        cs == centers(number)
        w == width(unv, number)
        hw == RDiv(w, Rat(2, 1))
    IN  [i \in 1..(2 * h) |->
            IF i = h + 1 THEN <<Anchor, Anchor, centers_pos(number)[2]>>
            ELSE IF i = h THEN <<centers_neg(number)[h - 1], RNeg(Anchor), RNeg(Anchor)>>
            ELSE <<RSub(cs[i], hw), cs[i], RAdd(cs[i], hw)>>]

\* automf(universe, linguistic_terms): the mapping term -> array, or the
\* exception raised.  With fewer than two centers a side, centers_pos[1]
\* does not exist (for number = 2 the width is a float division by zero,
\* which numpy answers with inf and a warning, before that).
automf(unv, lt) ==
    LET number == Len(lt)
        h == number \div 2
        tri == abcs(unv, number)
        n == IF number < 2 * h THEN number ELSE 2 * h
    IN  IF h < 2 THEN Raise("IndexError")
        ELSE IF \E i \in 1..n : Raised(trimf(unv, tri[i]))
            THEN Raise("AssertionError")
        ELSE Return([t \in {lt[i] : i \in 1..n} |->
                trimf(unv, tri[CHOOSE i \in 1..n : lt[i] = t]).value])

(* ----------------------- activate and aggregate ------------------------ *)

\* np.fmin(scalar, array)
fmin(a, arr) == [i \in DOMAIN arr |-> RMin(a, arr[i])]

\* activate(activation_input, mf): mf[i] of a key that mf lacks is a KeyError
activate(activation_input, mf) ==
    IF \E i \in DOMAIN activation_input : i \notin DOMAIN mf
        THEN Raise("KeyError")
    ELSE Return([i \in DOMAIN activation_input |->
            fmin(activation_input[i], mf[i])])

\* the largest float of a non-empty set (np.fmax folded over it)
RMaxOf(S) == CHOOSE m \in S : \A y \in S : RLeq(y, m)
RMinOf(S) == CHOOSE m \in S : \A y \in S : RLeq(m, y)

\* aggregate(activated): functools.reduce of np.fmax over the arrays;
\* reduce of an empty list without an initial value is a TypeError
aggregate(activated) ==
    IF DOMAIN activated = {} THEN Raise("TypeError")
    ELSE Return([i \in DOMAIN universe |->
            RMaxOf({activated[k][i] : k \in DOMAIN activated})])

(* --------------------------- defuzzification --------------------------- *)

Half == Rat(1, 2)
Third == Rat(1, 3)
TwoThirds == Rat(2, 3)

\* skfuzzy centroid: area of the figure between samples i - 1 and i
SegArea(x, mfx, i) ==
    LET x1 == x[i - 1]
        x2 == x[i]
        y1 == mfx[i - 1]
        y2 == mfx[i]
        dx == RSub(x2, x1)
    IN  IF (y1 = Zero /\ y2 = Zero) \/ x1 = x2 THEN Zero
        ELSE IF y1 = y2 THEN RMul(dx, y1)
        ELSE IF y1 = Zero THEN RMul(Half, RMul(dx, y2))
        ELSE IF y2 = Zero THEN RMul(Half, RMul(dx, y1))
        ELSE RMul(Half, RMul(dx, RAdd(y1, y2)))

\* skfuzzy centroid: abscissa of the centroid of that figure
SegMoment(x, mfx, i) ==
    LET x1 == x[i - 1]
        x2 == x[i]
        y1 == mfx[i - 1]
        y2 == mfx[i]
        dx == RSub(x2, x1)
    IN  IF (y1 = Zero /\ y2 = Zero) \/ x1 = x2 THEN Zero
        ELSE IF y1 = y2 THEN RMul(Half, RAdd(x1, x2))
        ELSE IF y1 = Zero THEN RAdd(RMul(TwoThirds, dx), x1)
        ELSE IF y2 = Zero THEN RAdd(RMul(Third, dx), x1)
        ELSE RAdd(RDiv(RMul(TwoThirds, RMul(dx, RAdd(y2, RMul(Half, y1)))),
                       RAdd(y1, y2)), x1)

\* skfuzzy centroid(x, mfx): sum of moment * area over sum of area; the
\* divisor is np.fmax(sum_area, machine epsilon)
centroid(x, mfx) ==
    LET n == Len(x)
        sum_moment_area ==
            RSum([i \in 1..(n - 1) |->
                RMul(SegMoment(x, mfx, i + 1), SegArea(x, mfx, i + 1))])
        sum_area == RSum([i \in 1..(n - 1) |-> SegArea(x, mfx, i + 1)])
    IN  IF sum_area = Zero THEN Zero ELSE RDiv(sum_moment_area, sum_area)

\* x[mfx == mfx.max()]
AtMaximum(x, mfx) ==
    LET top == RMaxOf(Range(mfx))
    IN  SelectSeq([i \in DOMAIN x |-> <<x[i], mfx[i]>>],
                  LAMBDA p : p[2] = top)

\* a slip: the samples where mfx is largest are summed, not averaged
SumOfMaximum(x, mfx) ==
    LET at == AtMaximum(x, mfx)
    IN  RSum([i \in DOMAIN at |-> at[i][1]])

\* np.mean of the samples where mfx is largest
MeanOfMaximum(x, mfx) ==
    LET at == AtMaximum(x, mfx)
    IN  RDiv(RSum([i \in DOMAIN at |-> at[i][1]]), Rat(Len(at), 1))

\* skfuzzy defuzz(x, mfx, mode).  bisector is modelled up to the zero-area
\* check (it is never called past it here)
defuzz(x, mfx, mode) ==
    IF mode \in {"centroid", "bisector"}
        THEN IF RSum(mfx) = Zero THEN Raise("AssertionError")
             ELSE IF mode = "centroid" THEN Return(centroid(x, mfx))
             ELSE Raise("bisector: not modelled")
    ELSE IF mode = "mom" THEN Return(MeanOfMaximum(x, mfx))
    ELSE IF mode = "som"
        THEN Return(RMinOf({AtMaximum(x, mfx)[i][1] : i \in DOMAIN AtMaximum(x, mfx)}))
    ELSE IF mode = "lom"
        THEN Return(RMaxOf({AtMaximum(x, mfx)[i][1] : i \in DOMAIN AtMaximum(x, mfx)}))
    ELSE Raise("ValueError")

\* defuzzify(universe, aggregated, method)
defuzzify(unv, aggr, mthd) == defuzz(unv, aggr, mthd)

(* ------------------------------- text ---------------------------------- *)

RECURSIVE lstrip(_, _)
lstrip(s, chars) ==
    IF s /= <<>> /\ Head(s) \in chars THEN lstrip(Tail(s), chars) ELSE s

RECURSIVE rstrip(_, _)
rstrip(s, chars) ==
    IF s /= <<>> /\ s[Len(s)] \in chars
        THEN rstrip(SubSeq(s, 1, Len(s) - 1), chars)
        ELSE s

\* str.strip(chars)
strip(s, chars) == rstrip(lstrip(s, chars), chars)

\* str.replace(ch, '')
remove(s, ch) == SelectSeq(s, LAMBDA c : c /= ch)

\* repr of a str key: double quotes when it holds ' and no "
repr(s) ==
    IF "'" \in Range(s) /\ "\"" \notin Range(s)
        THEN <<"\"">> \o s \o <<"\"">>
        ELSE <<"'">> \o s \o <<"'">>

\* eval of a key printed by repr: only a quoted text is a str again
eval_key(s) ==
    IF Len(s) >= 2 /\ s[1] = "'" /\ s[Len(s)] = "'"
        THEN Return(SubSeq(s, 2, Len(s) - 1))
        ELSE Raise("SyntaxError")

\* eval(str(d).replace('"', '')) of a dict term -> float: every key goes
\* through repr, the removal of the double quotes and eval; the floats
\* are printed with the digits that read back to the same float
eval_str(d) ==
    LET key(k) == eval_key(remove(repr(k), "\""))
    IN  IF \E k \in DOMAIN d : Raised(key(k)) THEN Raise("SyntaxError")
        ELSE Return([k2 \in {key(k).value : k \in DOMAIN d} |->
                d[CHOOSE k \in DOMAIN d : key(k).value = k2]])

\* np.sign of a float
sign(v) == IF v[1] < 0 THEN RNeg(One) ELSE IF v[1] > 0 THEN One ELSE Zero

\* str of -1.0, 0.0 or 1.0
str_sign(s) ==
    IF s = Zero THEN <<"0", ".", "0">>
    ELSE IF s = One THEN <<"1", ".", "0">>
    ELSE <<"-", "1", ".", "0">>

\* the characters of the strip set '1\0.0\.\0'
SignStrip == {"1", "0", ".", "\\", "NUL"}

\* str of a float: the characters before the digits (a minus sign when it
\* is negative) and the digits, which spell its magnitude
str_float(v) ==
    [lead |-> IF v[1] < 0 THEN <<"-">> ELSE <<>>, digits |-> RAbs(v)]

\* str.strip('-') of such a text: no digit is a minus sign, so only the
\* leading characters can go
strip_float(t, chars) == [lead |-> lstrip(t.lead, chars), digits |-> t.digits]

\* float of such a text
float(t) == IF t.lead = <<"-">> THEN RNeg(t.digits) ELSE t.digits

(* ------------------------------- tables -------------------------------- *)

\* the concepts of the expert sheets, in sheet order (which here is also
\* the sorted order pandas groupby gives)
ConceptNames == <<"A", "B">>
Concepts == Range(ConceptNames)

\* an empty cell of a table (NaN)
NaN == <<>>

\* every ordered pair, row by row
AllPairs ==
    [k \in 1..(Len(ConceptNames) * Len(ConceptNames)) |->
        <<ConceptNames[((k - 1) \div Len(ConceptNames)) + 1],
          ConceptNames[((k - 1) % Len(ConceptNames)) + 1]>>]

Experts == 1..NumExperts

\* a slip: the empty cells are left empty
fillna_skipped(table) == table

\* DataFrame.fillna(0) of a table of floats
fillna(table) ==
    [r \in DOMAIN table |->
        [c \in DOMAIN table[r] |-> IF table[r][c] = NaN THEN Zero ELSE table[r][c]]]

\* pd.DataFrame(columns = labels, index = labels): every cell empty
empty_frame(labels) == [r \in labels |-> [c \in labels |-> NaN]]

\* weight_matrix.loc[r][c] = value: the row is a view of the frame, and a
\* label that is no column of the frame enlarges the view only
set_cell(table, r, c, value) ==
    IF c \in DOMAIN table[r]
        THEN [table EXCEPT ![r] = [@ EXCEPT ![c] = value]]
        ELSE table

\* dict[key] = value
put(dict, key, value) ==
    [k \in DOMAIN dict \cup {key} |-> IF k = key THEN value ELSE dict[k]]

(* ----------------------------- matrix mode ------------------------------ *)

\* flat_data.loc[antecedent][consequent]: the cell of every expert's sheet
cells_of(data, antecedent, consequent) ==
    [e \in DOMAIN data |-> data[e][antecedent][consequent]]

\* a slip: the counts are divided by the number of cells filled in
crosstab_of_answers(cells, nsheets) ==
    [t \in Range(cells) \ {NaN} |->
        Rat(Cardinality({e \in DOMAIN cells : cells[e] = t}),
            Cardinality({e \in DOMAIN cells : cells[e] /= NaN}))]

\* pd.crosstab(cells, cells.index) / len(data.keys()): for every term in
\* the cells, the share of the sheets that hold it
crosstab(cells, nsheets) ==
    [t \in Range(cells) \ {NaN} |->
        Rat(Cardinality({e \in DOMAIN cells : cells[e] = t}), nsheets)]

\* a slip: the check that the pair has terms is left out
pair_always_exists(crostab) == TRUE

\* len(crostab) != 0
pair_exists(crostab) == DOMAIN crostab /= {}

\* f'{antecedent} {consequent}'
aggregated_key(antecedent, consequent) == <<antecedent, " ", consequent>>

(* ------------------------------ list mode ------------------------------- *)

\* the rows of every expert's table, concatenated
flat_rows(data) ==
    LET RECURSIVE cat(_)
        cat(e) == IF e > Len(data) THEN <<>> ELSE data[e] \o cat(e + 1)
    IN  cat(1)

\* flat_data['From'].unique(): the labels of the From column
from_unique(data) == {flat_rows(data)[i].From : i \in DOMAIN flat_rows(data)}

\* the (From, To) groups of groupby, sorted
group_keys(data) ==
    SelectSeq(AllPairs, LAMBDA p :
        \E i \in DOMAIN flat_rows(data) :
            flat_rows(data)[i].From = p[1] /\ flat_rows(data)[i].To = p[2])

\* the codes that the rows of a group hold in a term column, NaN left out
codes_of(data, p, t) ==
    LET rows == SelectSeq(flat_rows(data), LAMBDA r :
                    r.From = p[1] /\ r.To = p[2] /\ r.codes[t] /= NaN)
    IN  [i \in DOMAIN rows |-> rows[i].codes[t][1]]

\* groupby(['From', 'To']).count() / len(data.keys())
freq_data(data, p, t) == Rat(Len(codes_of(data, p, t)), Len(data))

RECURSIVE SumInt(_)
SumInt(s) == IF s = <<>> THEN 0 ELSE Head(s) + SumInt(Tail(s))

\* groupby(['From', 'To']).mean(): NaN for a column with no code
mean(data, p, t) ==
    IF codes_of(data, p, t) = <<>> THEN NaN
    ELSE Rat(SumInt(codes_of(data, p, t)), Len(codes_of(data, p, t)))

\* signed = mean * freq_data, and final = signed.fillna(0)
final(data, p, t) ==
    IF mean(data, p, t) = NaN THEN Zero
    ELSE RMul(mean(data, p, t), freq_data(data, p, t))

\* the term columns of the tables
columns_of(data) == DOMAIN flat_rows(data)[1].codes

\* the key a term column gets: the sign characters left of
\* str(np.sign(value)) by the strip, then the term
signed_key(value, term) == strip(str_sign(sign(value)), SignStrip) \o term

\* the magnitude: float(str(value).strip('-'))
magnitude(value) == float(strip_float(str_float(value), {"-"}))

\* the activation parameter built for a pair from its row of final
list_parameter(data, p) ==
    LET term_set == [t \in columns_of(data) |-> final(data, p, t)]
    IN  [k \in {signed_key(term_set[t], t) : t \in DOMAIN term_set} |->
            magnitude(term_set[CHOOSE t \in DOMAIN term_set :
                signed_key(term_set[t], t) = k])]

\* not all(x == 0 for x in activation_parameter.values())
rule_fired(parameter) == \E k \in DOMAIN parameter : parameter[k] /= Zero

(* ------------------------------- inputs --------------------------------- *)

\* the defuzzification methods passed to a run; "sig" is the one the
\* docstrings name that skfuzzy does not have
Methods == {"centroid", "mom", "som", "lom", "sig"}

\* what the experts write: each rates A -> B with one of these or not at
\* all, and the first expert may also rate B -> A
RatingsAB == {NaN, BaseNames[1], BaseNames[2], Minus(BaseNames[2])}
RatingsBA == {NaN, BaseNames[3]}

\* a square sheet with those two ratings, every other cell empty
sheet(ab, ba) ==
    [a \in Concepts |-> [c \in Concepts |->
        IF a = "A" /\ c = "B" THEN ab
        ELSE IF a = "B" /\ c = "A" THEN ba
        ELSE NaN]]

\* the batches of square sheets (matrix mode)
MatrixBatches ==
    {[e \in Experts |-> sheet(ab[e], IF e = 1 THEN ba ELSE NaN)] :
        ab \in [Experts -> RatingsAB], ba \in RatingsBA}

\* the terms written in a batch of sheets
labels_in(data) ==
    {data[e][a][c] : e \in DOMAIN data, a \in Concepts, c \in Concepts} \ {NaN}

\* the unsigned names of a term list: the term columns of a list table
term_columns(lt) ==
    {b \in Range(BaseNames) : b \in Range(lt) \/ Minus(b) \in Range(lt)}

\* the list row of one matrix cell: the code +1 or -1 in the column of the
\* cell's unsigned term, every other column empty
list_row(cell, p, cols) ==
    [From |-> p[1], To |-> p[2],
     codes |-> [t \in cols |->
        IF cell = t THEN <<1>> ELSE IF cell = Minus(t) THEN <<-1>> ELSE NaN]]

\* the list tables with the content of a batch of sheets, one row for
\* every pair of `pairs`
list_form(data, pairs, cols) ==
    [e \in DOMAIN data |->
        [i \in DOMAIN pairs |->
            list_row(data[e][pairs[i][1]][pairs[i][2]], pairs[i], cols)]]

\* the pairs a list table has rows for: every pair, or A -> B alone
RowChoices == {AllPairs, << <<"A", "B">> >>}

Modes == {"matrix", "list"}

(* -------------------------------- state --------------------------------- *)

VARIABLES
    data_mat,             \* self.data of the matrix-mode processor
    data_list,            \* self.data of the list-mode processor
    linguistic_terms,     \* the argument linguistic_terms of the runs
    method,               \* the argument method of the runs
    running,              \* the call in progress: "none", "matrix" or "list"
    pc,                   \* the statement the call in progress is at
    pair_index,           \* the position of the loop over the pairs
    weight_matrix,        \* local weight_matrix
    activation_parameter, \* local activation_parameter
    activated,            \* local activated
    aggr,                 \* local aggregated / aggr
    terms,                \* self.terms of each processor
    expert_data,          \* self.expert_data of each processor
    aggregated,           \* self.aggregated of each processor
    causal_weights,       \* self.causal_weights of each processor
    outcome,              \* how each processor's run ended: "none" before
                          \* it ends, "done", or the exception raised
    defuzzified           \* a direct call of defuzzify and what it gave

vars == <<data_mat, data_list, linguistic_terms, method, running, pc,
          pair_index, weight_matrix, activation_parameter, activated, aggr,
          terms, expert_data, aggregated, causal_weights, outcome,
          defuzzified>>

inputs == <<data_mat, data_list, linguistic_terms, method>>
locals == <<weight_matrix, activation_parameter, activated, aggr>>

\* an attribute that is not set, an empty dict, an absent local
Unset == <<>>

\* the state after construction: the data is loaded (and has passed the
\* validator: its terms are terms of the list configured), nothing has run
Init ==
    /\ \E n \in 1..MaxTerms : linguistic_terms = TermList(n)
    /\ method \in Methods
    \* every method is run with the list of four terms, the other lists
    \* with the default method
    /\ method = "centroid" \/ Len(linguistic_terms) = 4
    /\ data_mat \in MatrixBatches
    /\ labels_in(data_mat) \subseteq Range(linguistic_terms)
    /\ \E pairs \in RowChoices :
        data_list = list_form(data_mat, pairs, term_columns(linguistic_terms))
    /\ running = "none"
    /\ pc = "idle"
    /\ pair_index = 0
    /\ weight_matrix = Unset
    /\ activation_parameter = Unset
    /\ activated = Unset
    /\ aggr = Unset
    /\ terms = [m \in Modes |-> Unset]
    /\ expert_data = [m \in Modes |-> Unset]
    /\ aggregated = [m \in Modes |-> Unset]
    /\ causal_weights = [m \in Modes |-> Unset]
    /\ outcome = [m \in Modes |-> "none"]
    /\ defuzzified = [called |-> FALSE]

\* the pairs the loop of a mode goes over, in its order
pairs_of(mode) == IF mode = "matrix" THEN AllPairs ELSE group_keys(data_list)

\* the pair the loop is at
pair == pairs_of(running)[pair_index]

\* the exception e leaves the call: the locals are gone, the attributes
\* stay as they are
raise(e) ==
    /\ outcome' = [outcome EXCEPT ![running] = e]
    /\ running' = "none"
    /\ pc' = "idle"
    /\ pair_index' = 0
    /\ weight_matrix' = Unset
    /\ activation_parameter' = Unset
    /\ activated' = Unset
    /\ aggr' = Unset

\* the loop goes to its next pair, or ends
next_pair ==
    /\ pair_index' = pair_index + 1
    /\ pc' = IF pair_index + 1 > Len(pairs_of(running)) THEN "finish" ELSE "tally"
    /\ activation_parameter' = Unset
    /\ activated' = Unset
    /\ aggr' = Unset

\* a slip: the frame the loop fills is the attribute itself
store_published(value) ==
    /\ weight_matrix' = set_cell(weight_matrix, pair[1], pair[2], value)
    /\ causal_weights' = [causal_weights EXCEPT ![running] = fillna(weight_matrix')]

\* weight_matrix.loc[pair[0]][pair[1]] = value: the local frame gets the
\* value, self.causal_weights is not touched inside the loop
store(value) ==
    /\ weight_matrix' = set_cell(weight_matrix, pair[1], pair[2], value)
    /\ UNCHANGED causal_weights

(* ----------------------- gen_weights_mat, by step ----------------------- *)

\* lines 202-222: the empty weight matrix, the logs reset, automf
GenWeightsMat ==
    /\ running = "none"
    /\ outcome["matrix"] = "none"
    /\ ~defuzzified.called
    /\ expert_data' = [expert_data EXCEPT !["matrix"] = Unset]
    /\ aggregated' = [aggregated EXCEPT !["matrix"] = Unset]
    /\ LET r == automf(universe, linguistic_terms)
       IN  IF Raised(r)
            THEN /\ outcome' = [outcome EXCEPT !["matrix"] = r.raised]
                 /\ UNCHANGED <<running, pc, pair_index, locals, terms>>
            ELSE /\ terms' = [terms EXCEPT !["matrix"] = r.value]
                 /\ running' = "matrix"
                 /\ weight_matrix' = empty_frame(Concepts)
                 /\ pair_index' = 1
                 /\ pc' = "tally"
                 /\ UNCHANGED <<activation_parameter, activated, aggr, outcome>>
    /\ UNCHANGED <<inputs, causal_weights, defuzzified>>

\* lines 227-231: the crosstab of the pair; a pair with terms gets its
\* activation parameter, which is logged
MatTally ==
    /\ running = "matrix"
    /\ pc = "tally"
    /\ LET crostab == crosstab(cells_of(data_mat, pair[1], pair[2]), Len(data_mat))
           r == eval_str(crostab)
       IN  IF ~pair_exists(crostab)
            THEN /\ next_pair
                 /\ UNCHANGED <<running, weight_matrix, expert_data, outcome>>
            ELSE IF Raised(r)
                THEN /\ raise(r.raised)
                     /\ UNCHANGED expert_data
            ELSE /\ activation_parameter' = r.value
                 /\ expert_data' = [expert_data EXCEPT
                        !["matrix"] = put(@, pair, r.value)]
                 /\ pc' = "activate"
                 /\ UNCHANGED <<running, pair_index, weight_matrix, activated,
                                aggr, outcome>>
    /\ UNCHANGED <<inputs, terms, aggregated, causal_weights, defuzzified>>

\* line 233
MatActivate ==
    /\ running = "matrix"
    /\ pc = "activate"
    /\ LET r == activate(activation_parameter, terms["matrix"])
       IN  IF Raised(r)
            THEN raise(r.raised)
            ELSE /\ activated' = r.value
                 /\ pc' = "aggregate"
                 /\ UNCHANGED <<running, pair_index, weight_matrix,
                                activation_parameter, aggr, outcome>>
    /\ UNCHANGED <<inputs, terms, expert_data, aggregated, causal_weights,
                   defuzzified>>

\* lines 234-235: aggregate, and the aggregated set is logged
MatAggregate ==
    /\ running = "matrix"
    /\ pc = "aggregate"
    /\ LET r == aggregate(activated)
       IN  IF Raised(r)
            THEN /\ raise(r.raised)
                 /\ UNCHANGED aggregated
            ELSE /\ aggr' = r.value
                 /\ aggregated' = [aggregated EXCEPT
                        !["matrix"] = put(@, aggregated_key(pair[1], pair[2]), r.value)]
                 /\ pc' = "defuzzify"
                 /\ UNCHANGED <<running, pair_index, weight_matrix,
                                activation_parameter, activated, outcome>>
    /\ UNCHANGED <<inputs, terms, expert_data, causal_weights, defuzzified>>

\* lines 236-237: defuzzify, and the value goes into the weight matrix
MatDefuzzify ==
    /\ running = "matrix"
    /\ pc = "defuzzify"
    /\ LET r == defuzzify(universe, aggr, method)
       IN  IF Raised(r)
            THEN /\ raise(r.raised)
                 /\ UNCHANGED causal_weights
            ELSE /\ store(r.value)
                 /\ next_pair
                 /\ UNCHANGED <<running, outcome>>
    /\ UNCHANGED <<inputs, terms, expert_data, aggregated, defuzzified>>

\* line 239: the weight matrix, its empty cells 0, becomes causal_weights
MatFinish ==
    /\ running = "matrix"
    /\ pc = "finish"
    /\ causal_weights' = [causal_weights EXCEPT !["matrix"] = fillna(weight_matrix)]
    /\ outcome' = [outcome EXCEPT !["matrix"] = "done"]
    /\ running' = "none"
    /\ pc' = "idle"
    /\ pair_index' = 0
    /\ weight_matrix' = Unset
    /\ UNCHANGED <<inputs, activation_parameter, activated, aggr, terms,
                   expert_data, aggregated, defuzzified>>

(* ---------------------- gen_weights_list, by step ----------------------- *)

\* lines 265-289: the empty weight matrix over the From labels, the logs
\* reset, the signed frequencies (final), automf
GenWeightsList ==
    /\ running = "none"
    /\ outcome["list"] = "none"
    /\ outcome["matrix"] /= "none"
    /\ expert_data' = [expert_data EXCEPT !["list"] = Unset]
    /\ aggregated' = [aggregated EXCEPT !["list"] = Unset]
    /\ LET r == automf(universe, linguistic_terms)
       IN  IF Raised(r)
            THEN /\ outcome' = [outcome EXCEPT !["list"] = r.raised]
                 /\ UNCHANGED <<running, pc, pair_index, locals, terms>>
            ELSE /\ terms' = [terms EXCEPT !["list"] = r.value]
                 /\ running' = "list"
                 /\ weight_matrix' = empty_frame(from_unique(data_list))
                 /\ pair_index' = 1
                 /\ pc' = "tally"
                 /\ UNCHANGED <<activation_parameter, activated, aggr, outcome>>
    /\ UNCHANGED <<inputs, causal_weights, defuzzified>>

\* lines 291-303: the activation parameter of the pair is built from its
\* row of final and logged; the pair goes on if a rule fired
ListTally ==
    /\ running = "list"
    /\ pc = "tally"
    /\ LET parameter == list_parameter(data_list, pair)
       IN  /\ expert_data' = [expert_data EXCEPT !["list"] = put(@, pair, parameter)]
           /\ IF rule_fired(parameter)
                THEN /\ activation_parameter' = parameter
                     /\ pc' = "activate"
                     /\ UNCHANGED <<pair_index, activated, aggr>>
                ELSE next_pair
    /\ UNCHANGED <<inputs, running, weight_matrix, terms, aggregated,
                   causal_weights, outcome, defuzzified>>

\* line 304
ListActivate ==
    /\ running = "list"
    /\ pc = "activate"
    /\ LET r == activate(activation_parameter, terms["list"])
       IN  IF Raised(r)
            THEN raise(r.raised)
            ELSE /\ activated' = r.value
                 /\ pc' = "aggregate"
                 /\ UNCHANGED <<running, pair_index, weight_matrix,
                                activation_parameter, aggr, outcome>>
    /\ UNCHANGED <<inputs, terms, expert_data, aggregated, causal_weights,
                   defuzzified>>

\* lines 305-306: aggregate, and the aggregated set is logged
ListAggregate ==
    /\ running = "list"
    /\ pc = "aggregate"
    /\ LET r == aggregate(activated)
       IN  IF Raised(r)
            THEN /\ raise(r.raised)
                 /\ UNCHANGED aggregated
            ELSE /\ aggr' = r.value
                 /\ aggregated' = [aggregated EXCEPT
                        !["list"] = put(@, aggregated_key(pair[1], pair[2]), r.value)]
                 /\ pc' = "defuzzify"
                 /\ UNCHANGED <<running, pair_index, weight_matrix,
                                activation_parameter, activated, outcome>>
    /\ UNCHANGED <<inputs, terms, expert_data, causal_weights, defuzzified>>

\* lines 307-308: defuzzify, and the value goes into the weight matrix
ListDefuzzify ==
    /\ running = "list"
    /\ pc = "defuzzify"
    /\ LET r == defuzzify(universe, aggr, method)
       IN  IF Raised(r)
            THEN /\ raise(r.raised)
                 /\ UNCHANGED causal_weights
            ELSE /\ store(r.value)
                 /\ next_pair
                 /\ UNCHANGED <<running, outcome>>
    /\ UNCHANGED <<inputs, terms, expert_data, aggregated, defuzzified>>

\* line 309: the weight matrix, its empty cells 0, becomes causal_weights
ListFinish ==
    /\ running = "list"
    /\ pc = "finish"
    /\ causal_weights' = [causal_weights EXCEPT !["list"] = fillna(weight_matrix)]
    /\ outcome' = [outcome EXCEPT !["list"] = "done"]
    /\ running' = "none"
    /\ pc' = "idle"
    /\ pair_index' = 0
    /\ weight_matrix' = Unset
    /\ UNCHANGED <<inputs, activation_parameter, activated, aggr, terms,
                   expert_data, aggregated, defuzzified>>

(* ------------------------ defuzzify, called alone ----------------------- *)

\* the arrays handed to a direct call: all zeros, and a membership function
DirectArrays == {ZeroArray, automf(universe, TermList(4)).value[BaseNames[1]]}

\* lines 154-179: defuzzify(universe, array, mthd) on a fresh processor
CallDefuzzify ==
    /\ running = "none"
    /\ \A m \in Modes : outcome[m] = "none"
    /\ ~defuzzified.called
    /\ \E array \in DirectArrays, mthd \in Methods \cup {"bisector"} :
        /\ mthd = "bisector" => array = ZeroArray
        /\ defuzzified' = [called |-> TRUE, aggregated |-> array, method |-> mthd,
                           result |-> defuzzify(universe, array, mthd)]
    /\ UNCHANGED <<inputs, running, pc, pair_index, locals, terms, expert_data,
                   aggregated, causal_weights, outcome>>

Next ==
    \/ GenWeightsMat
    \/ MatTally
    \/ MatActivate
    \/ MatAggregate
    \/ MatDefuzzify
    \/ MatFinish
    \/ GenWeightsList
    \/ ListTally
    \/ ListActivate
    \/ ListAggregate
    \/ ListDefuzzify
    \/ ListFinish
    \/ CallDefuzzify

Spec == Init /\ [][Next]_vars
(* ------------------------------- claims --------------------------------- *)

\* the run of mode m has been called: automf has been reached
Called(m) == running = m \/ outcome[m] /= "none"

\* the list tables have a row for every ordered pair: they hold the same
\* content as the sheets, pair by pair
SameContent ==
    data_list = list_form(data_mat, AllPairs, term_columns(linguistic_terms))

\* no expert assigned a term to the pair
Unrated(m, a, c) ==
    IF m = "matrix"
        THEN \A e \in Experts : data_mat[e][a][c] = NaN
        ELSE \A i \in DOMAIN flat_rows(data_list) :
                LET r == flat_rows(data_list)[i]
                IN  (r.From = a /\ r.To = c) => \A t \in DOMAIN r.codes : r.codes[t] = NaN

\* some expert's list table has a row for the pair
HasRow(a, c) ==
    \E i \in DOMAIN flat_rows(data_list) :
        flat_rows(data_list)[i].From = a /\ flat_rows(data_list)[i].To = c

\* the matrix has a cell for the pair
HasCell(table, a, c) == a \in DOMAIN table /\ c \in DOMAIN table[a]

InUnit(v) == RLeq(Zero, v) /\ RLeq(v, One)

\* C1: equivalent content, once as sheets and once as list tables with a
\* row for every pair, gives the same causal weight for every ordered pair.
ModesAgree ==
    (SameContent /\ outcome["matrix"] = "done" /\ outcome["list"] = "done")
        => \A a \in Concepts, c \in Concepts :
            /\ HasCell(causal_weights["list"], a, c)
            /\ causal_weights["matrix"][a][c] = causal_weights["list"][a][c]

\* C2: automf of a term list of odd length fails: no run that was given
\* one gets a mapping of membership functions.
OddTermListFails ==
    \A m \in Modes :
        (Called(m) /\ Len(linguistic_terms) % 2 = 1)
            => (terms[m] = Unset /\ outcome[m] \notin {"none", "done"})

\* the universe samples nearest to a point
Nearest(v) ==
    {i \in DOMAIN universe :
        \A j \in DOMAIN universe :
            RLeq(RAbs(RSub(universe[i], v)), RAbs(RSub(universe[j], v)))}

\* C3: automf of a term list of even length N >= 2 gives exactly N
\* entries, one for every term, each with one value in [0, 1] for every
\* universe sample and its largest value at the sample of the term's center.
EvenTermListBuilt ==
    \A m \in Modes :
        (Called(m) /\ Len(linguistic_terms) % 2 = 0 /\ Len(linguistic_terms) >= 2)
            => /\ terms[m] /= Unset
               /\ DOMAIN terms[m] = Range(linguistic_terms)
               /\ Cardinality(DOMAIN terms[m]) = Len(linguistic_terms)
               /\ \A k \in DOMAIN linguistic_terms :
                    LET mf == terms[m][linguistic_terms[k]]
                    IN  /\ DOMAIN mf = DOMAIN universe
                        /\ \A i \in DOMAIN mf : InUnit(mf[i])
                        /\ \E i \in Nearest(centers(Len(linguistic_terms))[k]) :
                            \A j \in DOMAIN mf : RLeq(mf[j], mf[i])

\* C4, as claimed: after a run of either mode, a pair that no expert rated
\* has the cell 0 and no entry in either log.  (Stated for tables with a
\* row for every pair, where every pair has a cell.)
UnratedPairLeavesNoTrace ==
    \A m \in Modes :
        (outcome[m] = "done" /\ SameContent)
            => \A a \in Concepts, c \in Concepts :
                Unrated(m, a, c)
                    => /\ HasCell(causal_weights[m], a, c)
                       /\ causal_weights[m][a][c] = Zero
                       /\ <<a, c>> \notin DOMAIN expert_data[m]
                       /\ aggregated_key(a, c) \notin DOMAIN aggregated[m]

\* C4, amended: after a run, a pair that no expert rated has no cell other
\* than 0 and no entry in the log of aggregated sets.  In matrix mode its
\* cell is 0 and it has no entry in the log of activation parameters; in
\* list mode it has an entry there exactly when the tables have a row for
\* it, and the entry maps every term to 0.
UnratedPairTrace ==
    \A m \in Modes :
        outcome[m] = "done"
            => \A a \in Concepts, c \in Concepts :
                Unrated(m, a, c)
                    => /\ HasCell(causal_weights[m], a, c)
                            => causal_weights[m][a][c] = Zero
                       /\ aggregated_key(a, c) \notin DOMAIN aggregated[m]
                       /\ m = "matrix"
                            => /\ HasCell(causal_weights[m], a, c)
                               /\ <<a, c>> \notin DOMAIN expert_data[m]
                       /\ m = "list"
                            => /\ <<a, c>> \in DOMAIN expert_data[m] <=> HasRow(a, c)
                               /\ HasRow(a, c)
                                    => \A t \in DOMAIN expert_data[m][<<a, c>>] :
                                        expert_data[m][<<a, c>>][t] = Zero

\* both runs are over, and the unrated pair A -> A, which has a row in the
\* list tables, is in the list-mode log and not in the matrix-mode log
UnratedPairSeen ==
    /\ outcome["matrix"] = "done"
    /\ outcome["list"] = "done"
    /\ Unrated("matrix", "A", "A")
    /\ HasRow("A", "A")
    /\ <<"A", "A">> \in DOMAIN expert_data["list"]
    /\ <<"A", "A">> \notin DOMAIN expert_data["matrix"]
    /\ causal_weights["list"]["A"]["A"] = Zero

\* the experts who wrote term t in the cell of a pair
Raters(p, t) == {e \in Experts : data_mat[e][p[1]][p[2]] = t}

RECURSIVE SumOver(_, _)
SumOver(f, keys) ==
    IF keys = {} THEN Zero
    ELSE LET k == CHOOSE k \in keys : TRUE
         IN  RAdd(f[k], SumOver(f, keys \ {k}))

\* C5: in matrix mode the activation parameter logged for a pair maps
\* exactly the terms some expert wrote in the pair's cell to the share of
\* the experts who wrote it: every value is in (0, 1] and they sum to at
\* most 1; when every expert wrote the same term t the parameter is
\* {t: 1} and the aggregated set is mf[t].  A finished run has logged
\* every rated pair.
MatrixParameterIsShare ==
    /\ \A p \in DOMAIN expert_data["matrix"] :
        LET parameter == expert_data["matrix"][p]
            key == aggregated_key(p[1], p[2])
        IN  /\ DOMAIN parameter =
                    {data_mat[e][p[1]][p[2]] : e \in Experts} \ {NaN}
            /\ \A t \in DOMAIN parameter :
                /\ parameter[t] = Rat(Cardinality(Raters(p, t)), NumExperts)
                /\ RLt(Zero, parameter[t])
                /\ RLeq(parameter[t], One)
            /\ RLeq(SumOver(parameter, DOMAIN parameter), One)
            /\ \A t \in DOMAIN parameter :
                Raters(p, t) = Experts
                    => /\ parameter = [k \in {t} |-> One]
                       /\ key \in DOMAIN aggregated["matrix"]
                            => aggregated["matrix"][key] = terms["matrix"][t]
    /\ outcome["matrix"] = "done"
        => \A a \in Concepts, c \in Concepts :
            ~Unrated("matrix", a, c) => <<a, c>> \in DOMAIN expert_data["matrix"]

\* the matrix-mode run is over; the experts were split between two terms
\* on A -> B, and did not all rate it
SplitParameterSeen ==
    /\ outcome["matrix"] = "done"
    /\ <<"A", "B">> \in DOMAIN expert_data["matrix"]
    /\ Cardinality(DOMAIN expert_data["matrix"][<<"A", "B">>]) = 2
    /\ \E e \in Experts : data_mat[e]["A"]["B"] = NaN

\* C6: defuzzify of the array of zeros gives 0, whatever the method.
ZeroArrayGivesZero ==
    (defuzzified.called /\ defuzzified.aggregated = ZeroArray)
        => defuzzified.result = Return(Zero)

\* C7: a run that has not come to its end has not set causal_weights: a
\* run that an exception leaves shows no weight matrix, and the matrix of
\* a run that ended has a number in every cell.
PartialMatrixNeverShown ==
    \A m \in Modes :
        /\ outcome[m] /= "done" => causal_weights[m] = Unset
        /\ outcome[m] = "done"
            => \A r \in DOMAIN causal_weights[m] :
                \A c \in DOMAIN causal_weights[m][r] : causal_weights[m][r][c] /= NaN

\* the matrix-mode run computed the weight of A -> B and then failed at
\* B -> A on a term with no membership function
FailedAfterCell ==
    /\ outcome["matrix"] = "KeyError"
    /\ aggregated_key("A", "B") \in DOMAIN aggregated["matrix"]
    /\ <<"B", "A">> \in DOMAIN expert_data["matrix"]
    /\ causal_weights["matrix"] = Unset

ListPairHasItsCell ==
    outcome["list"] = "done"
        => \A k \in DOMAIN group_keys(data_list) :
            LET p == group_keys(data_list)[k]
            IN  rule_fired(expert_data["list"][p])
                    => /\ HasCell(causal_weights["list"], p[1], p[2])
                       /\ causal_weights["list"][p[1]][p[2]] =
                            defuzzify(universe,
                                aggregated["list"][aggregated_key(p[1], p[2])],
                                method).value

\* C10: aggregate is called with at least one activated function, and
\* defuzzify with the set aggregated for the same pair; a pair reaches
\* activation only if a rule fired for it, so that aggregate never fails
\* on an empty set.
StepsInOrder ==
    /\ pc = "aggregate" => DOMAIN activated /= {}
    /\ pc = "defuzzify"
        => /\ aggregated_key(pair[1], pair[2]) \in DOMAIN aggregated[running]
           /\ aggregated[running][aggregated_key(pair[1], pair[2])] = aggr
    /\ pc \in {"activate", "aggregate", "defuzzify"}
        => /\ ~Unrated(running, pair[1], pair[2])
           /\ activation_parameter = expert_data[running][pair]
           /\ \E t \in DOMAIN activation_parameter : activation_parameter[t] /= Zero
    /\ \A m \in Modes : outcome[m] /= "TypeError"

\* the list-mode run is about to defuzzify A -> B after it skipped A -> A
SkippedThenDefuzzified ==
    /\ running = "list"
    /\ pc = "defuzzify"
    /\ pair = <<"A", "B">>
    /\ <<"A", "A">> \in DOMAIN expert_data["list"]
    /\ aggregated_key("A", "A") \notin DOMAIN aggregated["list"]

====
